---- MODULE Spec2Model ----
(***************************************************************************)
(* Model of the local compiler of nekro-plugin-webapp:                     *)
(*   src/services/local_compiler/build.js  (bundle pipeline)               *)
(*   src/services/local_compiler/check.js  (type-validation pipeline)      *)
(* A request is one run of one of the two scripts.  Strings are sequences  *)
(* of one-character strings; a multi-line text (the checker's output, the  *)
(* reported error) is the sequence of its lines, i.e. what split('\n')     *)
(* yields, so the empty text is << <<>> >>.                                *)
(***************************************************************************)
EXTENDS Integers, Sequences, FiniteSets, TLC

(***************************************************************************)
(* Bounds of the model.                                                    *)
(***************************************************************************)
\* files besides src/main.tsx in a bundle request
MaxFiles == 2
\* files in a type-validation request
MaxScopeFiles == 1
\* lines in the checker's output
MaxLines == 2

(***************************************************************************)
(* JavaScript string primitives used by the two scripts.                   *)
(***************************************************************************)
StartsWith(s, p) == Len(s) >= Len(p) /\ SubSeq(s, 1, Len(p)) = p

EndsWith(s, p) == Len(s) >= Len(p) /\ SubSeq(s, Len(s) - Len(p) + 1, Len(s)) = p

\* s.substring(n)
SubstringFrom(s, n) == SubSeq(s, n + 1, Len(s))

\* the 1-based positions at which p occurs in s
Occurrences(s, p) ==
    {i \in 1..(Len(s) - Len(p) + 1) : s[i] = p[1] /\ SubSeq(s, i, i + Len(p) - 1) = p}

\* s.includes(p), p not empty
Includes(s, p) == Occurrences(s, p) # {}

Min(S) == CHOOSE x \in S : \A y \in S : x <= y

Max(S) == CHOOSE x \in S : \A y \in S : x >= y

\* s.replace(p, r) with a string pattern: only the first occurrence is replaced
ReplaceFirst(s, p, r) ==
    IF ~Includes(s, p) THEN s
    ELSE LET i == Min(Occurrences(s, p))
         IN  SubSeq(s, 1, i - 1) \o r \o SubSeq(s, i + Len(p), Len(s))

Whitespace == {" ", "\t", "\r"}

\* !line.trim()
TrimIsEmpty(s) == \A i \in 1..Len(s) : s[i] \in Whitespace

(***************************************************************************)
(* Node's posix path module, as far as the scripts call it.                *)
(***************************************************************************)
Dot == <<".">>
DotDot == <<".", ".">>
Slash == <<"/">>

RECURSIVE SplitSlash(_)
SplitSlash(s) ==
    IF s = <<>> THEN << <<>> >>
    ELSE LET rest == SplitSlash(Tail(s))
         IN  IF Head(s) = "/" THEN << <<>> >> \o rest
             ELSE << <<Head(s)>> \o Head(rest) >> \o Tail(rest)

RECURSIVE JoinSlash(_)
JoinSlash(segs) ==
    IF segs = <<>> THEN <<>>
    ELSE IF Len(segs) = 1 THEN Head(segs)
    ELSE Head(segs) \o Slash \o JoinSlash(Tail(segs))

Front(s) == SubSeq(s, 1, Len(s) - 1)

Last(s) == s[Len(s)]

\* normalizeString: empty and "." segments vanish, ".." removes the segment
\* before it, or stays when there is none to remove and the path is relative
RECURSIVE NormalizeSegments(_, _, _)
NormalizeSegments(segs, res, allowAboveRoot) ==
    IF segs = <<>> THEN res
    ELSE LET seg == Head(segs)
             rest == Tail(segs)
         IN  IF seg = <<>> \/ seg = Dot
                 THEN NormalizeSegments(rest, res, allowAboveRoot)
             ELSE IF seg = DotDot
                 THEN IF res # <<>> /\ Last(res) # DotDot
                          THEN NormalizeSegments(rest, Front(res), allowAboveRoot)
                      ELSE IF allowAboveRoot
                          THEN NormalizeSegments(rest, Append(res, DotDot), allowAboveRoot)
                      ELSE NormalizeSegments(rest, res, allowAboveRoot)
             ELSE NormalizeSegments(rest, Append(res, seg), allowAboveRoot)

\* path.normalize
PathNormalize(p) ==
    IF p = <<>> THEN Dot
    ELSE LET isAbsolute == Head(p) = "/"
             trailing == Last(p) = "/"
             body == JoinSlash(NormalizeSegments(SplitSlash(p), <<>>, ~isAbsolute))
         IN  IF body = <<>>
                 THEN IF isAbsolute THEN Slash ELSE IF trailing THEN <<".", "/">> ELSE Dot
             ELSE (IF isAbsolute THEN Slash ELSE <<>>) \o body
                  \o (IF trailing THEN Slash ELSE <<>>)

\* the two parts glued together with a separator and left as they are
PathJoinRaw(a, b) ==
    IF a = <<>> THEN b ELSE IF b = <<>> THEN a ELSE a \o Slash \o b

\* path.join(a, b)
PathJoin(a, b) ==
    IF a = <<>> /\ b = <<>> THEN Dot
    ELSE IF a = <<>> THEN PathNormalize(b)
    ELSE IF b = <<>> THEN PathNormalize(a)
    ELSE PathNormalize(a \o Slash \o b)

\* path.dirname
PathDirname(p) ==
    IF p = <<>> THEN Dot
    ELSE LET hasRoot == Head(p) = "/"
             ends == {i \in 2..Len(p) :
                          p[i] = "/" /\ \E j \in (i + 1)..Len(p) : p[j] # "/"}
         IN  IF ends = {} THEN (IF hasRoot THEN Slash ELSE Dot)
             ELSE IF hasRoot /\ Max(ends) = 2 THEN <<"/", "/">>
             ELSE SubSeq(p, 1, Max(ends) - 1)

\* path.extname: from the last "." of the last path component, unless that
\* component has no "." or only a leading one
PathExtname(p) ==
    LET nonSlash == {i \in 1..Len(p) : p[i] # "/"}
        end == IF nonSlash = {} THEN 0 ELSE Max(nonSlash)
        slashes == {i \in 1..end : p[i] = "/"}
        start == IF slashes = {} THEN 1 ELSE Max(slashes) + 1
        dots == {i \in start..end : p[i] = "."}
    IN  IF dots = {} THEN <<>>
        ELSE IF Max(dots) = start THEN <<>>
        ELSE IF end = start + 1 /\ Max(dots) = end /\ p[start] = "." THEN <<>>
        ELSE SubSeq(p, Max(dots), end)

(***************************************************************************)
(* build.js: the resolver (build.onResolve).                               *)
(***************************************************************************)
\* the fixed entry point, "src/main.tsx"
EntryPath == <<"s", "r", "c", "/", "m", "a", "i", "n", ".", "t", "s", "x">>
AliasPrefix == <<"@", "/">>
SrcPrefix == <<"s", "r", "c", "/">>
CssSuffix == <<".", "c", "s", "s">>

VfsResult(p) == [path |-> p, namespace |-> "vfs", external |-> FALSE]

IgnoreCssResult(p) == [path |-> p, namespace |-> "ignore-css", external |-> FALSE]

ExternalResult(p) == [path |-> p, namespace |-> "file", external |-> TRUE]

\* the relative branch
ResolveRelative(path, importer) ==
    LET dir == PathDirname(importer)
        resolved == PathJoin(dir, path)
        cleanPath == IF StartsWith(resolved, Slash) THEN SubstringFrom(resolved, 1)
                     ELSE resolved
    IN  VfsResult(cleanPath)

\* the callback with the stylesheet rule tried before the path rules
OnResolveCssFirst(kind, path, importer) ==
    IF kind = "entry-point" THEN VfsResult(path)
    ELSE IF EndsWith(path, CssSuffix) THEN IgnoreCssResult(path)
    ELSE IF StartsWith(path, Slash) THEN VfsResult(SubstringFrom(path, 1))
    ELSE IF StartsWith(path, AliasPrefix)
        THEN VfsResult(SrcPrefix \o SubstringFrom(path, 2))
    ELSE IF StartsWith(path, Dot) THEN ResolveRelative(path, importer)
    ELSE ExternalResult(path)

\* what the onResolve callback returns for args = {kind, path, importer}
OnResolve(kind, path, importer) ==
    IF kind = "entry-point" THEN VfsResult(path)
    ELSE IF StartsWith(path, Slash) THEN VfsResult(SubstringFrom(path, 1))
    ELSE IF StartsWith(path, AliasPrefix)
        THEN VfsResult(SrcPrefix \o SubstringFrom(path, 2))
    ELSE IF StartsWith(path, Dot) THEN ResolveRelative(path, importer)
    ELSE IF EndsWith(path, CssSuffix) THEN IgnoreCssResult(path)
    ELSE ExternalResult(path)

\* whether the callback reaches collectedExternals.push(args.path)
PushesExternal(kind, path, importer) == OnResolve(kind, path, importer).external

\* the collected list as it is, duplicates kept
ExternalsOutputNoSet(collected) == collected

\* [...new Set(collected)]: first occurrences, in order
RECURSIVE ExternalsOutput(_)
ExternalsOutput(collected) ==
    IF collected = <<>> THEN <<>>
    ELSE LET front == ExternalsOutput(Front(collected))
         IN  IF \E i \in 1..Len(front) : front[i] = Last(collected) THEN front
             ELSE Append(front, Last(collected))

(***************************************************************************)
(* build.js: file contents, getLoader and the loader (build.onLoad).       *)
(* A file's content is its text (an identifier; "" is the empty text), the *)
(* import specifiers its text holds, in order, and whether it parses.      *)
(***************************************************************************)
\* what files[key] evaluates to when key is no property of files
Undefined == [undefined |-> TRUE]

Null == [null |-> TRUE]

EmptyText == [text |-> "", imports |-> <<>>, parses |-> TRUE]

\* JavaScript truthiness of a property of files
Truthy(c) == c # Undefined /\ c.text # ""

TsxExt == <<".", "t", "s", "x">>
TsExt == <<".", "t", "s">>
JsxExt == <<".", "j", "s", "x">>
JsExt == <<".", "j", "s">>
CssExt == <<".", "c", "s", "s">>
JsonExt == <<".", "j", "s", "o", "n">>

\* the probe order of onLoad
Extensions == <<TsxExt, TsExt, JsxExt, JsExt, CssExt, JsonExt>>

GetLoader(filename) ==
    LET ext == PathExtname(filename)
    IN  IF ext = JsExt THEN "jsx"
        ELSE IF ext = JsxExt THEN "jsx"
        ELSE IF ext = TsExt THEN "ts"
        ELSE IF ext = TsxExt THEN "tsx"
        ELSE IF ext = CssExt THEN "css"
        ELSE IF ext = JsonExt THEN "json"
        ELSE "text"

\* files[key]
Lookup(fs, key) == IF key \in DOMAIN fs THEN fs[key] ELSE Undefined

NotFoundPrefix == <<"F", "i", "l", "e", " ", "n", "o", "t", " ", "f", "o", "u", "n", "d", " ", "i", "n", " ", "V", "F", "S", ":", " ">>

NotFoundError(path) == [text |-> NotFoundPrefix \o path, location |-> Null]

LoadOk(c, l) == [contents |-> c, loader |-> l, errors |-> <<>>]

LoadErrors(errs) == [contents |-> Undefined, loader |-> "none", errors |-> errs]

\* whether onLoad (namespace vfs) enters its probing branch: if (!content)
Probes(fs, path) == ~Truthy(Lookup(fs, path))

\* what the onLoad callback of namespace vfs returns for args.path
OnLoadVfs(fs, path) ==
    LET content == Lookup(fs, path)
        hits == {i \in 1..Len(Extensions) : Truthy(Lookup(fs, path \o Extensions[i]))}
    IN  IF ~Truthy(content)
            THEN IF hits # {}
                     THEN LoadOk(Lookup(fs, path \o Extensions[Min(hits)]),
                                 GetLoader(path \o Extensions[Min(hits)]))
                 ELSE LoadErrors(<<NotFoundError(path)>>)
        ELSE LoadOk(content, GetLoader(path))

\* what the onLoad callback of namespace ignore-css returns
OnLoadIgnoreCss == LoadOk(EmptyText, "css")

(***************************************************************************)
(* The requests.                                                           *)
(***************************************************************************)
\* inputData: blank, not JSON, the JSON null, an object without files, an
\* object with files
PayloadKinds == {"blank", "malformed", "null", "nofiles", "files"}

SpecRelA == <<".", "/", "a">>
SpecUpD == <<".", ".", "/", "d">>
SpecUpUpD == <<".", ".", "/", ".", ".", "/", "d">>
SpecAliasA == <<"@", "/", "a", ".", "t", "s">>
SpecAliasCss == <<"@", "/", "s", ".", "c", "s", "s">>
SpecAbsC == <<"/", "a", "/", "b", "/", "c", ".", "t", "s">>
SpecAbsCss == <<"/", "s", "r", "c", "/", "s", ".", "c", "s", "s">>
SpecRelCss == <<".", "/", "s", ".", "c", "s", "s">>
SpecReact == <<"r", "e", "a", "c", "t">>
SpecLodash == <<"l", "o", "d", "a", "s", "h">>
SpecBareCss == <<"x", ".", "c", "s", "s">>
SpecDotC == <<".", "/", "b", "/", ".", "/", "c", ".", "t", "s">>
SpecUpSrcA == <<".", ".", "/", "s", "r", "c", "/", "/", "a">>
SpecHere == <<".", "/">>

KeyA == <<"s", "r", "c", "/", "a">>
KeyATs == <<"s", "r", "c", "/", "a", ".", "t", "s">>
KeyATsx == <<"s", "r", "c", "/", "a", ".", "t", "s", "x">>
KeyC == <<"a", "/", "b", "/", "c", ".", "t", "s">>
KeyD == <<"a", "/", "d", ".", "j", "s">>
KeyCss == <<"s", "r", "c", "/", "s", ".", "c", "s", "s">>

Text(id, imports) == [text |-> id, imports |-> imports, parses |-> TRUE]

\* what src/main.tsx may hold
MainContents ==
    { EmptyText,
      [text |-> "bad", imports |-> <<>>, parses |-> FALSE],
      Text("m1", <<SpecRelA, SpecReact, SpecReact>>),
      Text("m2", <<SpecAbsC, SpecBareCss, SpecRelCss>>),
      Text("m3", <<SpecAliasA, EntryPath, SpecAliasCss>>),
      Text("m4", <<SpecUpUpD, SpecAbsCss, SpecLodash>>) }

\* what each other file holds when its text is not empty
KeyText(key) ==
    IF key = KeyATs THEN Text("a.ts", <<SpecReact, SpecLodash>>)
    ELSE IF key = KeyC THEN Text("c.ts", <<SpecUpD, SpecReact>>)
    ELSE IF key = KeyA THEN Text("a", <<>>)
    ELSE IF key = KeyATsx THEN Text("a.tsx", <<SpecHere>>)
    ELSE IF key = KeyD THEN Text("d.js", <<SpecDotC, SpecUpSrcA>>)
    ELSE Text("s.css", <<>>)

OtherKeys == {KeyA, KeyATs, KeyATsx, KeyC, KeyD, KeyCss}

OtherMaps ==
    UNION { [ks -> {"empty", "text"}] :
                ks \in {s \in SUBSET OtherKeys : Cardinality(s) <= MaxFiles} }

\* the VirtualFileMaps of the bundle requests
BuildFileMaps ==
    { [k \in DOMAIN o \cup m.keys |->
           IF k = EntryPath /\ m.keys # {} THEN m.content
           ELSE IF o[k] = "empty" THEN EmptyText ELSE KeyText(k)] :
        o \in OtherMaps,
        m \in {[keys |-> {}, content |-> EmptyText]}
              \cup {[keys |-> {EntryPath}, content |-> c] : c \in MainContents} }

\* the keys of the type-validation requests: plain ones, one that climbs out
\* of its directory, one that climbs and stays, one with a leading separator
ScopeKeys == {EntryPath, KeyATs, <<".", ".", "/", "e", ".", "t", "s">>, <<"a", "/", ".", ".", "/", "b", ".", "t", "s">>, <<"/", "x", ".", "t", "s">>}

\* the VirtualFileMaps of the type-validation requests
CheckFileMaps ==
    UNION { [ks -> {Text("t", <<>>)}] :
                ks \in {s \in SUBSET ScopeKeys : Cardinality(s) <= MaxScopeFiles} }

NoFiles == [k \in {} |-> EmptyText]

(***************************************************************************)
(* The state of one request.                                               *)
(***************************************************************************)
VARIABLES
    pipeline,           \* "build" (build.js) or "check" (check.js)
    payload,            \* the kind of inputData
    files,              \* the VirtualFileMap of the payload (NoFiles when it has none)
    pc,                 \* where the script is
    stdout,             \* the envelopes written with console.log, in order
    exited,             \* process.exit(0) was called
    collectedExternals, \* build.js: the externals pushed so far
    pendingResolve,     \* build.js: import edges the bundler has yet to resolve
    pendingLoad,        \* build.js: modules the bundler has yet to load
    resolved,           \* build.js: the onResolve calls made, with their results
    loaded,             \* build.js: the onLoad calls made, with their results
    buildErrors,        \* build.js: the errors the bundler has gathered
    tmpDir,             \* check.js: the scope's root, Null before mkdtempSync
    scope,              \* check.js: "none", "exists" or "removed"
    rmAttempted,        \* check.js: fs.rmSync(tmpDir) was called
    remaining,          \* check.js: the entries of files still to be written
    written,            \* check.js: the paths written so far
    tscPath,            \* check.js: the checker found, Null when none
    tscResult,          \* check.js: (error, stdout, stderr) handed to exec's callback
    cleanedOutput,      \* check.js: cleanedOutput before its truncation
    exc                 \* check.js: the message of the exception being handled

vars == <<pipeline, payload, files, pc, stdout, exited, collectedExternals,
          pendingResolve, pendingLoad, resolved, loaded, buildErrors, tmpDir,
          scope, rmAttempted, remaining, written, tscPath, tscResult,
          cleanedOutput, exc>>

requestVars == <<pipeline, payload, files>>

buildVars == <<collectedExternals, pendingResolve, pendingLoad, resolved, loaded,
               buildErrors>>

checkVars == <<tmpDir, scope, rmAttempted, remaining, written, tscPath, tscResult,
               cleanedOutput, exc>>

HasFiles == payload = "files"

EmptyString == << <<>> >>

(***************************************************************************)
(* The result envelopes and the exceptions' messages.                      *)
(***************************************************************************)
MsgNoInput == <<"N", "o", " ", "i", "n", "p", "u", "t", " ", "d", "a", "t", "a", " ", "r", "e", "c", "e", "i", "v", "e", "d">>
MsgNotJson == <<"U", "n", "e", "x", "p", "e", "c", "t", "e", "d", " ", "t", "o", "k", "e", "n", " ", "h", " ", "i", "n", " ", "J", "S", "O", "N", " ", "a", "t", " ", "p", "o", "s", "i", "t", "i", "o", "n", " ", "0">>
MsgDestructure == <<"C", "a", "n", "n", "o", "t", " ", "d", "e", "s", "t", "r", "u", "c", "t", "u", "r", "e", " ", "p", "r", "o", "p", "e", "r", "t", "y", " ", "'", "f", "i", "l", "e", "s", "'", " ", "o", "f", " ", "'", "J", "S", "O", "N", ".", "p", "a", "r", "s", "e", "(", ".", ".", ".", ")", "'", " ", "a", "s", " ", "i", "t", " ", "i", "s", " ", "n", "u", "l", "l", ".">>
MsgEntries == <<"C", "a", "n", "n", "o", "t", " ", "c", "o", "n", "v", "e", "r", "t", " ", "u", "n", "d", "e", "f", "i", "n", "e", "d", " ", "o", "r", " ", "n", "u", "l", "l", " ", "t", "o", " ", "o", "b", "j", "e", "c", "t">>
MsgLoadUndefined == <<"C", "a", "n", "n", "o", "t", " ", "r", "e", "a", "d", " ", "p", "r", "o", "p", "e", "r", "t", "i", "e", "s", " ", "o", "f", " ", "u", "n", "d", "e", "f", "i", "n", "e", "d">>
MsgSyntax == <<"U", "n", "e", "x", "p", "e", "c", "t", "e", "d", " ", "e", "n", "d", " ", "o", "f", " ", "f", "i", "l", "e">>
MsgIo == <<"E", "N", "O", "S", "P", "C", ":", " ", "n", "o", " ", "s", "p", "a", "c", "e", " ", "l", "e", "f", "t", " ", "o", "n", " ", "d", "e", "v", "i", "c", "e">>

\* the exception thrown by the first statements of either handler, if any
ParseFailure(p) ==
    IF p = "blank" THEN MsgNoInput
    ELSE IF p = "malformed" THEN MsgNotJson
    ELSE MsgDestructure

\* {success: false, error}
FailureEnvelope(text) == [success |-> FALSE, error |-> text]

\* {success: true, output}
SuccessEnvelope(text) == [success |-> TRUE, output |-> text]

(***************************************************************************)
(* build.js: the handler of stdin's end, around the bundler.               *)
(***************************************************************************)
EntryEdge == [kind |-> "entry-point", path |-> EntryPath, importer |-> <<>>, idx |-> 0]

JsLoaders == {"jsx", "ts", "tsx"}

Digits == <<"0", "1", "2", "3", "4", "5", "6", "7", "8", "9">>

Spaces(n) == [i \in 1..n |-> " "]

\* one error of e.errors as the catch block formats it
FormatError(err) ==
    IF err.location = Null THEN <<err.text>>
    ELSE << err.text \o <<" ", "a", "t", " ">> \o err.location.file \o <<":", Digits[err.location.line + 1],
                             ":", Digits[err.location.column + 1]>>,
            err.location.lineText,
            Spaces(err.location.column) \o <<"^">> >>

\* e.errors.map(...).join('\n\n')
RECURSIVE FormatErrors(_)
FormatErrors(errs) ==
    IF Len(errs) = 1 THEN FormatError(Head(errs))
    ELSE FormatError(Head(errs)) \o << <<>> >> \o FormatErrors(Tail(errs))

\* the parse error the bundler reports for a text that does not parse
SyntaxError(path) ==
    [text |-> MsgSyntax,
     location |-> [file |-> path, line |-> 1, column |-> 8, lineText |-> <<"i", "m", "p", "o", "r", "t", " ", "{">>]]

\* the program text of a successful bundle: the modules joined, and whether
\* the stylesheet preamble was put in front
JsCode ==
    [modules |-> {l.path : l \in {x \in loaded : x.res.loader \in JsLoaders}},
     injectsCss |-> \E l \in loaded : l.res.loader = "css" /\ l.res.contents.text # ""]

\* the success envelope of build.js
BundleEnvelope ==
    [success |-> TRUE, output |-> JsCode, externals |-> ExternalsOutput(collectedExternals)]

BuildStdinEnd ==
    /\ pipeline = "build"
    /\ pc = "start"
    /\ IF payload \in {"blank", "malformed", "null"}
           THEN /\ stdout' = Append(stdout, FailureEnvelope(<<ParseFailure(payload)>>))
                /\ exited' = TRUE
                /\ pc' = "done"
                /\ UNCHANGED pendingResolve
           ELSE /\ pendingResolve' = {EntryEdge}
                /\ pc' = "bundling"
                /\ UNCHANGED <<stdout, exited>>
    /\ UNCHANGED <<requestVars, checkVars, collectedExternals, pendingLoad, resolved,
                   loaded, buildErrors>>

\* the bundler calls onResolve for one import edge
BuildOnResolve ==
    /\ pipeline = "build"
    /\ pc = "bundling"
    /\ \E e \in pendingResolve :
          LET res == OnResolve(e.kind, e.path, e.importer)
              module == [path |-> res.path, namespace |-> res.namespace]
          IN  /\ pendingResolve' = pendingResolve \ {e}
              /\ resolved' = resolved \cup {[edge |-> e, res |-> res]}
              /\ collectedExternals' =
                     IF PushesExternal(e.kind, e.path, e.importer)
                         THEN Append(collectedExternals, e.path)
                     ELSE collectedExternals
              /\ pendingLoad' =
                     IF res.external
                           \/ \E l \in loaded : l.path = module.path
                                                 /\ l.namespace = module.namespace
                         THEN pendingLoad
                     ELSE pendingLoad \cup {module}
    /\ UNCHANGED <<requestVars, checkVars, pc, stdout, exited, loaded, buildErrors>>

\* the bundler calls onLoad for one module, parses what it gets and queues
\* the imports it finds
BuildOnLoad ==
    /\ pipeline = "build"
    /\ pc = "bundling"
    /\ \E m \in pendingLoad :
          LET res == IF m.namespace = "ignore-css" THEN OnLoadIgnoreCss
                     ELSE IF ~HasFiles
                         THEN LoadErrors(<<[text |-> MsgLoadUndefined, location |-> Null]>>)
                     ELSE OnLoadVfs(files, m.path)
              isCode == res.errors = <<>> /\ res.loader \in JsLoaders
              imports == IF isCode /\ res.contents.parses THEN res.contents.imports
                         ELSE <<>>
          IN  /\ pendingLoad' = pendingLoad \ {m}
              /\ loaded' = loaded \cup
                     {[path |-> m.path, namespace |-> m.namespace,
                       probed |-> m.namespace = "vfs" /\ HasFiles /\ Probes(files, m.path),
                       res |-> res]}
              /\ buildErrors' =
                     IF res.errors # <<>> THEN buildErrors \o res.errors
                     ELSE IF isCode /\ ~res.contents.parses
                         THEN Append(buildErrors, SyntaxError(m.path))
                     ELSE buildErrors
              /\ pendingResolve' = pendingResolve \cup
                     {[kind |-> "import-statement", path |-> imports[i],
                       importer |-> m.path, idx |-> i] : i \in 1..Len(imports)}
    /\ UNCHANGED <<requestVars, checkVars, pc, stdout, exited, collectedExternals,
                   resolved>>

\* esbuild.build settles: the rest of the try block, or the catch block
BuildSettled ==
    /\ pipeline = "build"
    /\ pc = "bundling"
    /\ pendingResolve = {}
    /\ pendingLoad = {}
    /\ IF buildErrors = <<>>
           THEN /\ stdout' = Append(stdout, BundleEnvelope)
                /\ UNCHANGED exited
           ELSE /\ stdout' = Append(stdout, FailureEnvelope(FormatErrors(buildErrors)))
                /\ exited' = TRUE
    /\ pc' = "done"
    /\ UNCHANGED <<requestVars, checkVars, buildVars>>

(***************************************************************************)
(* check.js: the checker's output and its post-processing.                 *)
(***************************************************************************)
\* what mkdtempSync(path.join(os.tmpdir(), 'nekro-check-')) returns
TmpDirName == <<"/", "t", "m", "p", "/", "n", "e", "k", "r", "o", "-", "c", "h", "e", "c", "k", "-", "A", "b", "3", "x", "Z", "9">>

VfsMarker == <<"v", "f", "s", ":">>
Code2307 == <<"e", "r", "r", "o", "r", " ", "T", "S", "2", "3", "0", "7", ":">>
Code7016 == <<"e", "r", "r", "o", "r", " ", "T", "S", "7", "0", "1", "6", ":">>
TruncateLimit == 2000

\* "\n... (Status: Truncated due to length)"
TruncationMarker == << <<>>, <<".", ".", ".", " ", "(", "S", "t", "a", "t", "u", "s", ":", " ", "T", "r", "u", "n", "c", "a", "t", "e", "d", " ", "d", "u", "e", " ", "t", "o", " ", "l", "e", "n", "g", "t", "h", ")">> >>

LineBlank == <<>>
LineSpaces == <<" ", "\r">>
Line2307 == <<"s", "r", "c", "/", "m", "a", "i", "n", ".", "t", "s", "x", "(", "1", ",", "1", "9", ")", ":", " ", "e", "r", "r", "o", "r", " ", "T", "S", "2", "3", "0", "7", ":", " ", "C", "a", "n", "n", "o", "t", " ", "f", "i", "n", "d", " ", "m", "o", "d", "u", "l", "e", " ", "'", "p", "i", "x", "i", ".", "j", "s", "'", ".">>
Line7016 == <<"s", "r", "c", "/", "m", "a", "i", "n", ".", "t", "s", "x", "(", "2", ",", "1", "5", ")", ":", " ", "e", "r", "r", "o", "r", " ", "T", "S", "7", "0", "1", "6", ":", " ", "C", "o", "u", "l", "d", " ", "n", "o", "t", " ", "f", "i", "n", "d", " ", "a", " ", "d", "e", "c", "l", "a", "r", "a", "t", "i", "o", "n", " ", "f", "i", "l", "e", " ", "f", "o", "r", " ", "m", "o", "d", "u", "l", "e", " ", "'", "x", "'", ".">>
LineError == <<"s", "r", "c", "/", "a", ".", "t", "s", "(", "3", ",", "7", ")", ":", " ", "e", "r", "r", "o", "r", " ", "T", "S", "2", "3", "2", "2", ":", " ", "T", "y", "p", "e", " ", "'", "s", "t", "r", "i", "n", "g", "'", " ", "i", "s", " ", "n", "o", "t", " ", "a", "s", "s", "i", "g", "n", "a", "b", "l", "e", " ", "t", "o", " ", "t", "y", "p", "e", " ", "'", "n", "u", "m", "b", "e", "r", "'", ".">>
LineErrorTmp == <<"e", "r", "r", "o", "r", " ", "T", "S", "6", "0", "5", "3", ":", " ", "F", "i", "l", "e", " ", "'">> \o TmpDirName \o <<"/", "s", "r", "c", "/", "b", ".", "t", "s", "'", " ", "n", "o", "t", " ", "f", "o", "u", "n", "d", ".">>
LineErrorTmpTwice ==
    <<"s", "r", "c", "/", "a", ".", "t", "s", "(", "4", ",", "1", ")", ":", " ", "e", "r", "r", "o", "r", " ", "T", "S", "2", "3", "2", "2", ":", " ", "T", "y", "p", "e", " ", "'", "i", "m", "p", "o", "r", "t", "(", "\"">> \o TmpDirName \o <<"/", "s", "r", "c", "/", "a", "\"", ")", ".", "T", "'", " ", "i", "s", " ", "n", "o", "t", " ", "a", "s", "s", "i", "g", "n", "a", "b", "l", "e", " ", "t", "o", " ", "t", "y", "p", "e", " ", "'", "i", "m", "p", "o", "r", "t", "(", "\"">>
    \o TmpDirName \o <<"/", "s", "r", "c", "/", "b", "\"", ")", ".", "T", "'", ".">>
LineLong(n) == [i \in 1..n |-> "x"]
LineLimit == LineLong(TruncateLimit)
LineOverLimit == LineLong(TruncateLimit + 1)

\* the lines the checker may print
DiagnosticLines ==
    {LineBlank, LineSpaces, Line2307, Line7016, LineError, LineErrorTmp,
     LineErrorTmpTwice}

\* the texts of at most n lines
Texts(n) == UNION {[1..k -> DiagnosticLines] : k \in 1..n}

\* texts at and over the length limit
LongTexts ==
    {<<l>> : l \in {LineLimit, LineOverLimit}}
    \cup {<<s, l>> : s \in {Line2307, LineError}, l \in {LineLimit, LineOverLimit}}

\* what the child process wrote to stderr when it crashed
CrashText == <<<<"n", "o", "d", "e", ":", " ", "i", "n", "t", "e", "r", "n", "a", "l", " ", "e", "r", "r", "o", "r">>, <<>>>>

\* a + b
TextConcat(a, b) == Front(a) \o <<Last(a) \o Head(b)>> \o Tail(b)

\* error.message of a failed exec: "Command failed: <cmd>\n<stderr>"
CommandFailed(stderr) ==
    TextConcat(<<<<"C", "o", "m", "m", "a", "n", "d", " ", "f", "a", "i", "l", "e", "d", ":", " ", "n", "o", "d", "e", " ", "t", "s", "c", " ", "-", "p", " ", ".", " ", "-", "-", "n", "o", "E", "m", "i", "t", " ", "-", "-", "p", "r", "e", "t", "t", "y", " ", "f", "a", "l", "s", "e">>, <<>>>>, stderr)

\* the (error, stdout, stderr) the callback of exec may be handed
TscResults ==
    {[failed |-> FALSE, message |-> EmptyString, stdout |-> EmptyString,
      stderr |-> EmptyString]}
    \cup {[failed |-> TRUE, message |-> CommandFailed(EmptyString), stdout |-> o,
           stderr |-> EmptyString] : o \in Texts(MaxLines) \cup LongTexts}
    \cup {[failed |-> TRUE, message |-> CommandFailed(CrashText), stdout |-> o,
           stderr |-> CrashText] : o \in Texts(1)}

\* stdout || stderr || error.message
RawOutput(r) ==
    IF r.stdout # EmptyString THEN r.stdout
    ELSE IF r.stderr # EmptyString THEN r.stderr
    ELSE r.message

\* the filter without its TS7016 rule
KeepLineOnly2307(line) == ~TrimIsEmpty(line) /\ ~Includes(line, Code2307)

\* the filter over the lines of rawOutput
KeepLine(line) ==
    /\ ~TrimIsEmpty(line)
    /\ ~Includes(line, Code2307)
    /\ ~Includes(line, Code7016)

\* the map over the lines kept
RewriteLine(dir, line) ==
    IF dir # Null /\ Includes(line, dir) THEN ReplaceFirst(line, dir, VfsMarker)
    ELSE line

\* lines.join('\n')
JoinLines(lines) == IF lines = <<>> THEN EmptyString ELSE lines

\* rawOutput.split('\n').filter(...).map(...).join('\n')
CleanOutput(raw, dir) ==
    LET kept == SelectSeq(raw, KeepLine)
    IN  JoinLines([i \in 1..Len(kept) |-> RewriteLine(dir, kept[i])])

\* !text.trim()
TextTrimIsEmpty(text) == \A i \in 1..Len(text) : TrimIsEmpty(text[i])

\* text.length
RECURSIVE TextLength(_)
TextLength(text) ==
    IF Len(text) = 1 THEN Len(Head(text))
    ELSE Len(Head(text)) + 1 + TextLength(Tail(text))

\* text.substring(0, n)
RECURSIVE TextPrefix(_, _)
TextPrefix(text, n) ==
    IF n <= Len(Head(text)) THEN <<SubSeq(Head(text), 1, n)>>
    ELSE IF Len(text) = 1 THEN text
    ELSE <<Head(text)>> \o TextPrefix(Tail(text), n - Len(Head(text)) - 1)

\* the limit taken one character too early
TruncateAtLimit(text) ==
    IF TextLength(text) >= TruncateLimit
        THEN TextConcat(TextPrefix(text, TruncateLimit - 1), TruncationMarker)
    ELSE text

\* the length limit on cleanedOutput
Truncate(text) ==
    IF TextLength(text) > TruncateLimit
        THEN TextConcat(TextPrefix(text, TruncateLimit), TruncationMarker)
    ELSE text

MsgNoTsc == <<<<"W", "a", "r", "n", "i", "n", "g", ":", " ", "T", "y", "p", "e", "S", "c", "r", "i", "p", "t", " ", "c", "o", "m", "p", "i", "l", "e", "r", " ", "(", "t", "s", "c", ")", " ", "n", "o", "t", " ", "f", "o", "u", "n", "d", " ", "i", "n", " ", "l", "o", "c", "a", "l", "_", "c", "o", "m", "p", "i", "l", "e", "r", ".", " ", "S", "k", "i", "p", "p", "i", "n", "g", " ", "s", "t", "r", "i", "c", "t", " ", "t", "y", "p", "e", " ", "c", "h", "e", "c", "k", ".">>>>
MsgNoCritical == <<<<"N", "o", " ", "c", "r", "i", "t", "i", "c", "a", "l", " ", "e", "r", "r", "o", "r", "s", " ", "f", "o", "u", "n", "d", " ", "(", "i", "g", "n", "o", "r", "e", "d", " ", "m", "i", "s", "s", "i", "n", "g", " ", "m", "o", "d", "u", "l", "e", "s", ")", ".">>>>
MsgNoErrors == <<<<"N", "o", " ", "e", "r", "r", "o", "r", "s", " ", "f", "o", "u", "n", "d", ".">>>>

\* the envelope the callback of exec writes, cleaned being cleanedOutput
\* before its truncation
CallbackEnvelope(r, cleaned) ==
    IF r.failed
        THEN IF TextTrimIsEmpty(cleaned) THEN SuccessEnvelope(MsgNoCritical)
             ELSE [success |-> FALSE, error |-> Truncate(cleaned), raw |-> RawOutput(r)]
    ELSE SuccessEnvelope(MsgNoErrors)

(***************************************************************************)
(* check.js: the handler of stdin's end and the callback of exec, step by  *)
(* step.  Every call into the file system may throw.                       *)
(***************************************************************************)
TscBin == <<"/", "a", "p", "p", "/", "n", "o", "d", "e", "_", "m", "o", "d", "u", "l", "e", "s", "/", ".", "b", "i", "n", "/", "t", "s", "c">>
TscPackage == <<"/", "a", "p", "p", "/", "n", "o", "d", "e", "_", "m", "o", "d", "u", "l", "e", "s", "/", "t", "y", "p", "e", "s", "c", "r", "i", "p", "t", "/", "b", "i", "n", "/", "t", "s", "c">>
TsconfigName == <<"t", "s", "c", "o", "n", "f", "i", "g", ".", "j", "s", "o", "n">>
NodeModulesName == <<"n", "o", "d", "e", "_", "m", "o", "d", "u", "l", "e", "s">>

\* a clean-up that never calls fs.rmSync
RemoveScopeSkipped(ok) == UNCHANGED <<rmAttempted, scope>>

\* fs.rmSync(tmpDir, {recursive: true, force: true}) inside try {} catch {}
RemoveScope(ok) ==
    /\ rmAttempted' = TRUE
    /\ scope' = IF ok THEN "removed" ELSE scope

\* the branch of the missing checker without its return statement
AfterNotFoundFallsThrough == "symlink"

\* where the handler goes after the branch of the missing checker: it returns
AfterNotFound == "done"

\* the first statements of the try block
CheckParse ==
    /\ pipeline = "check"
    /\ pc = "start"
    /\ IF payload \in {"blank", "malformed", "null"}
           THEN /\ exc' = ParseFailure(payload)
                /\ pc' = "catch"
           ELSE /\ pc' = "mkdtemp"
                /\ UNCHANGED exc
    /\ UNCHANGED <<requestVars, buildVars, stdout, exited, tmpDir, scope, rmAttempted,
                   remaining, written, tscPath, tscResult, cleanedOutput>>

\* 1. tmpDir = fs.mkdtempSync(...)
CheckMkdtemp ==
    /\ pipeline = "check"
    /\ pc = "mkdtemp"
    /\ \/ /\ tmpDir' = TmpDirName
          /\ scope' = "exists"
          /\ remaining' = DOMAIN files
          /\ pc' = "write"
          /\ UNCHANGED exc
       \/ /\ exc' = MsgIo
          /\ pc' = "catch"
          /\ UNCHANGED <<tmpDir, scope, remaining>>
    /\ UNCHANGED <<requestVars, buildVars, stdout, exited, rmAttempted, written,
                   tscPath, tscResult, cleanedOutput>>

\* 2. one turn of the loop over Object.entries(files), or the loop's end
CheckWriteFile ==
    /\ pipeline = "check"
    /\ pc = "write"
    /\ \/ /\ ~HasFiles
          /\ exc' = MsgEntries
          /\ pc' = "catch"
          /\ UNCHANGED <<remaining, written>>
       \/ /\ HasFiles
          /\ \E filepath \in remaining :
                /\ written' = written \cup {PathJoin(tmpDir, filepath)}
                /\ remaining' = remaining \ {filepath}
          /\ UNCHANGED <<pc, exc>>
       \/ /\ HasFiles
          /\ remaining # {}
          /\ exc' = MsgIo
          /\ pc' = "catch"
          /\ UNCHANGED <<remaining, written>>
       \/ /\ HasFiles
          /\ remaining = {}
          /\ pc' = "tsconfig"
          /\ UNCHANGED <<remaining, written, exc>>
    /\ UNCHANGED <<requestVars, buildVars, stdout, exited, tmpDir, scope, rmAttempted,
                   tscPath, tscResult, cleanedOutput>>

\* 3. fs.writeFileSync(path.join(tmpDir, 'tsconfig.json'), ...)
CheckWriteTsconfig ==
    /\ pipeline = "check"
    /\ pc = "tsconfig"
    /\ \/ /\ written' = written \cup {PathJoin(tmpDir, TsconfigName)}
          /\ pc' = "lookup"
          /\ UNCHANGED exc
       \/ /\ exc' = MsgIo
          /\ pc' = "catch"
          /\ UNCHANGED written
    /\ UNCHANGED <<requestVars, buildVars, stdout, exited, tmpDir, scope, rmAttempted,
                   remaining, tscPath, tscResult, cleanedOutput>>

\* 4. the two places the checker is looked for
CheckLookupTsc ==
    /\ pipeline = "check"
    /\ pc = "lookup"
    /\ \E installed \in SUBSET {TscBin, TscPackage} :
          IF TscBin \in installed
              THEN tscPath' = TscBin /\ pc' = "symlink"
          ELSE IF TscPackage \in installed
              THEN tscPath' = TscPackage /\ pc' = "symlink"
          ELSE tscPath' = Null /\ pc' = "notfound"
    /\ UNCHANGED <<requestVars, buildVars, stdout, exited, tmpDir, scope, rmAttempted,
                   remaining, written, tscResult, cleanedOutput, exc>>

\* the checker is not installed: the warning is written
CheckNotFoundRespond ==
    /\ pipeline = "check"
    /\ pc = "notfound"
    /\ stdout' = Append(stdout, SuccessEnvelope(MsgNoTsc))
    /\ pc' = "notfound_cleanup"
    /\ UNCHANGED <<requestVars, buildVars, checkVars, exited>>

\* the checker is not installed: the scope is removed, and the handler returns
CheckNotFoundCleanup ==
    /\ pipeline = "check"
    /\ pc = "notfound_cleanup"
    /\ \E ok \in BOOLEAN : RemoveScope(ok)
    /\ pc' = AfterNotFound
    /\ UNCHANGED <<requestVars, buildVars, stdout, exited, tmpDir, remaining, written,
                   tscPath, tscResult, cleanedOutput, exc>>

\* fs.symlinkSync(...) inside try {} catch {}, then exec(...)
CheckSymlinkAndExec ==
    /\ pipeline = "check"
    /\ pc = "symlink"
    /\ \E ok \in BOOLEAN :
          written' = IF ok THEN written \cup {PathJoin(tmpDir, NodeModulesName)}
                     ELSE written
    /\ pc' = "running"
    /\ UNCHANGED <<requestVars, buildVars, stdout, exited, tmpDir, scope, rmAttempted,
                   remaining, tscPath, tscResult, cleanedOutput, exc>>

\* the callback of exec: the clean-up
CheckCallbackCleanup ==
    /\ pipeline = "check"
    /\ pc = "running"
    /\ tscResult' \in TscResults
    /\ \E ok \in BOOLEAN : RemoveScope(ok)
    /\ pc' = "callback"
    /\ UNCHANGED <<requestVars, buildVars, stdout, exited, tmpDir, remaining, written,
                   tscPath, cleanedOutput, exc>>

\* the callback of exec: the diagnostics are filtered and the envelope written
CheckCallbackRespond ==
    /\ pipeline = "check"
    /\ pc = "callback"
    /\ cleanedOutput' = IF tscResult.failed THEN CleanOutput(RawOutput(tscResult), tmpDir)
                        ELSE cleanedOutput
    /\ stdout' = Append(stdout, CallbackEnvelope(tscResult, cleanedOutput'))
    /\ pc' = "done"
    /\ UNCHANGED <<requestVars, buildVars, exited, tmpDir, scope, rmAttempted, remaining,
                   written, tscPath, tscResult, exc>>

\* the catch block: the clean-up
CheckCatchCleanup ==
    /\ pipeline = "check"
    /\ pc = "catch"
    /\ IF tmpDir # Null THEN \E ok \in BOOLEAN : RemoveScope(ok)
       ELSE UNCHANGED <<rmAttempted, scope>>
    /\ pc' = "catch_respond"
    /\ UNCHANGED <<requestVars, buildVars, stdout, exited, tmpDir, remaining, written,
                   tscPath, tscResult, cleanedOutput, exc>>

\* the catch block: the envelope
CheckCatchRespond ==
    /\ pipeline = "check"
    /\ pc = "catch_respond"
    /\ stdout' = Append(stdout, FailureEnvelope(<<exc>>))
    /\ pc' = "done"
    /\ UNCHANGED <<requestVars, buildVars, checkVars, exited>>

\* the handler has returned, or the process has exited: nothing runs any more
Terminated ==
    /\ pc = "done"
    /\ UNCHANGED vars

(***************************************************************************)
(* The specification: one request to one of the two scripts.               *)
(***************************************************************************)
Init ==
    /\ pipeline \in {"build", "check"}
    /\ payload \in PayloadKinds
    /\ files \in IF payload # "files" THEN {NoFiles}
                 ELSE IF pipeline = "build" THEN BuildFileMaps
                 ELSE CheckFileMaps
    /\ pc = "start"
    /\ stdout = <<>>
    /\ exited = FALSE
    /\ collectedExternals = <<>>
    /\ pendingResolve = {}
    /\ pendingLoad = {}
    /\ resolved = {}
    /\ loaded = {}
    /\ buildErrors = <<>>
    /\ tmpDir = Null
    /\ scope = "none"
    /\ rmAttempted = FALSE
    /\ remaining = {}
    /\ written = {}
    /\ tscPath = Null
    /\ tscResult = Null
    /\ cleanedOutput = Null
    /\ exc = Null

Next ==
    \/ BuildStdinEnd
    \/ BuildOnResolve
    \/ BuildOnLoad
    \/ BuildSettled
    \/ CheckParse
    \/ CheckMkdtemp
    \/ CheckWriteFile
    \/ CheckWriteTsconfig
    \/ CheckLookupTsc
    \/ CheckNotFoundRespond
    \/ CheckNotFoundCleanup
    \/ CheckSymlinkAndExec
    \/ CheckCallbackCleanup
    \/ CheckCallbackRespond
    \/ CheckCatchCleanup
    \/ CheckCatchRespond
    \/ Terminated

Spec == Init /\ [][Next]_vars

(***************************************************************************)
(* The claims.                                                             *)
(***************************************************************************)
Range(s) == {s[i] : i \in 1..Len(s)}

Envelope == stdout[1]

Responded == pc = "done" /\ Len(stdout) = 1

\* C1: in check.js, once the scope directory was created, no response is
\* written before the removal of the directory was attempted.
C1_ScopeRemovedBeforeResponse ==
    (pipeline = "check" /\ tmpDir # Null /\ stdout # <<>>) => rmAttempted

\* C2: either script writes exactly one envelope per request, whatever
\* happens, and the envelope carries output when success is true and error
\* when it is false, never both and never neither.
C2_ExactlyOneEnvelope ==
    /\ Len(stdout) <= 1
    /\ pc = "done" => Len(stdout) = 1
    /\ \A i \in 1..Len(stdout) :
          /\ stdout[i].success \in BOOLEAN
          /\ ("output" \in DOMAIN stdout[i]) = stdout[i].success
          /\ ("error" \in DOMAIN stdout[i]) = ~stdout[i].success

\* a request that went through the whole validation run, the checker
\* failing, answered with the one failure envelope
C2_Witness ==
    /\ Responded
    /\ pipeline = "check"
    /\ ~Envelope.success
    /\ "raw" \in DOMAIN Envelope

\* C3: a load of a key of the VirtualFileMap returns the content stored
\* under that very key, with the loader of the key's extension, and probes
\* no extension, whatever the content.
C3_ExactKeyLoaded ==
    \A l \in loaded :
        (l.namespace = "vfs" /\ l.path \in DOMAIN files)
            => /\ l.res = LoadOk(files[l.path], GetLoader(l.path))
               /\ ~l.probed

\* the first extension, in the probe order, with which key is a key of fs
FirstKeyWithExtension(fs, key) ==
    Min({i \in 1..Len(Extensions) : key \o Extensions[i] \in DOMAIN fs})

\* C4: a load of a path that is no key of the VirtualFileMap returns the
\* content of the first path + extension that is a key, in the probe order;
\* with no such key it fails with the file-not-found error naming the path,
\* and the response is a failure whose error names the path.
C4_ProbedKeyLoaded ==
    \A l \in loaded :
        (l.namespace = "vfs" /\ HasFiles /\ l.path \notin DOMAIN files)
            => IF \E i \in 1..Len(Extensions) : l.path \o Extensions[i] \in DOMAIN files
                   THEN LET key == l.path \o Extensions[FirstKeyWithExtension(files, l.path)]
                        IN  l.res = LoadOk(files[key], GetLoader(key))
               ELSE /\ l.res.errors = <<NotFoundError(l.path)>>
                    /\ Responded
                           => /\ ~Envelope.success
                              /\ \E i \in 1..Len(Envelope.error) :
                                    Includes(Envelope.error[i], l.path)

BundleSucceeded == pipeline = "build" /\ Responded /\ Envelope.success

\* the number of times x occurs in the sequence s
Count(s, x) == Cardinality({i \in 1..Len(s) : s[i] = x})

\* C5, as claimed: the externals of a successful bundle hold every specifier
\* classified External exactly once, and no specifier that was resolved as
\* EntryPoint, VirtualKey or Ignored.
C5_ExternalsAsClaimed ==
    BundleSucceeded =>
        \A r \in resolved :
            IF r.res.external THEN Count(Envelope.externals, r.edge.path) = 1
            ELSE Count(Envelope.externals, r.edge.path) = 0

\* C5, amended: the externals of a successful bundle hold every specifier
\* classified External in some resolution exactly once, and nothing else.
C5_ExternalsOnce ==
    BundleSucceeded =>
        /\ \A r \in resolved :
              r.res.external => Count(Envelope.externals, r.edge.path) = 1
        /\ \A x \in Range(Envelope.externals) :
              \E r \in resolved : r.res.external /\ r.edge.path = x

\* a successful bundle in which react was imported by several import
\* statements of several files
C5_Witness ==
    /\ BundleSucceeded
    /\ Cardinality({r \in resolved : r.edge.path = SpecReact}) >= 3
    /\ Cardinality({r.edge.importer : r \in {x \in resolved : x.edge.path = SpecReact}}) >= 2

\* C6: the resolver's rules are tried in the order entry point, leading "/",
\* "@/", leading ".", ".css" suffix, and the first that matches decides; every
\* call yields one reference; a stylesheet specifier under a path rule is a
\* VirtualKey, and an Ignored specifier is never recorded as an external.
C6_ResolverRules ==
    \A r \in resolved :
        LET p == r.edge.path
            isEntry == r.edge.kind = "entry-point"
            isAbs == ~isEntry /\ Len(p) >= 1 /\ p[1] = "/"
            isAlias == ~isEntry /\ ~isAbs /\ Len(p) >= 2 /\ p[1] = "@" /\ p[2] = "/"
            isRel == ~isEntry /\ ~isAbs /\ ~isAlias /\ Len(p) >= 1 /\ p[1] = "."
            isCss == ~isEntry /\ ~isAbs /\ ~isAlias /\ ~isRel /\ EndsWith(p, <<".", "c", "s", "s">>)
            isBare == ~isEntry /\ ~isAbs /\ ~isAlias /\ ~isRel /\ ~isCss
        IN  /\ r.res.namespace \in {"vfs", "ignore-css", "file"}
            /\ r.res.external = (r.res.namespace = "file")
            /\ isEntry => r.res.namespace = "vfs" /\ r.res.path = p
            /\ isAbs => r.res.namespace = "vfs" /\ r.res.path = Tail(p)
            /\ isAlias => r.res.namespace = "vfs"
                          /\ r.res.path = <<"s", "r", "c", "/">> \o Tail(Tail(p))
            /\ isRel => r.res.namespace = "vfs"
            /\ isCss => r.res.namespace = "ignore-css" /\ r.res.path = p
                        /\ p \notin Range(collectedExternals)
            /\ isBare => r.res.external /\ r.res.path = p
                         /\ p \in Range(collectedExternals)
            /\ r.res.namespace = "ignore-css" => p \notin Range(collectedExternals)

\* a bare stylesheet was ignored, and stylesheets under the "/", "@/" and "."
\* rules were resolved to VirtualKeys
C6_Witness ==
    /\ \E r \in resolved : r.edge.path = SpecBareCss /\ r.res.namespace = "ignore-css"
    /\ \E r \in resolved : r.edge.path = SpecRelCss /\ r.res = VfsResult(KeyCss)

\* a line the claim calls noise: blank, or carrying TS2307 or TS7016
IsNoise(line) ==
    \/ \A i \in 1..Len(line) : line[i] \in {" ", "\t", "\r"}
    \/ Includes(line, <<"e", "r", "r", "o", "r", " ", "T", "S", "2", "3", "0", "7", ":">>)
    \/ Includes(line, <<"e", "r", "r", "o", "r", " ", "T", "S", "7", "0", "1", "6", ":">>)

CheckerFailed == pipeline = "check" /\ Responded /\ tscResult # Null /\ tscResult.failed

\* the output of the checker the callback works on
CheckerOutput ==
    IF tscResult.stdout # EmptyString THEN tscResult.stdout
    ELSE IF tscResult.stderr # EmptyString THEN tscResult.stderr
    ELSE tscResult.message

\* C7: when the checker fails, the response is the success "no critical
\* errors" exactly when every line of its output is blank or carries a
\* suppressed code, and a failure otherwise.
C7_NoiseOnlyIsSuccess ==
    CheckerFailed =>
        IF \A i \in 1..Len(CheckerOutput) : IsNoise(CheckerOutput[i])
            THEN Envelope = [success |-> TRUE, output |-> MsgNoCritical]
        ELSE ~Envelope.success

\* a failed run whose output held nothing but a TS7016 line and blank lines
C7_Witness ==
    /\ CheckerFailed
    /\ Envelope.success
    /\ \E i \in 1..Len(CheckerOutput) : Includes(CheckerOutput[i], <<"e", "r", "r", "o", "r", " ", "T", "S", "7", "0", "1", "6", ":">>)

\* s with every occurrence of p replaced by r
RECURSIVE ReplaceAll(_, _, _)
ReplaceAll(s, p, r) ==
    IF ~Includes(s, p) THEN s
    ELSE LET i == Min(Occurrences(s, p))
         IN  SubSeq(s, 1, i - 1) \o r \o ReplaceAll(SubSeq(s, i + Len(p), Len(s)), p, r)

NotNoise(line) == ~IsNoise(line)

\* C8: the error of a failed check is, before truncation, the lines of the
\* checker's output that are neither blank nor suppressed, in order, with
\* every reference to the scope's root replaced by "vfs:"; no line names the
\* scope's root.
C8_ErrorLinesRewritten ==
    (CheckerFailed /\ ~Envelope.success) =>
        LET kept == SelectSeq(CheckerOutput, NotNoise)
        IN  /\ Len(cleanedOutput) = Len(kept)
            /\ \A i \in 1..Len(kept) :
                  /\ cleanedOutput[i] = ReplaceAll(kept[i], tmpDir, <<"v", "f", "s", ":">>)
                  /\ ~Includes(cleanedOutput[i], tmpDir)

\* a text as one string, its lines joined by "\n"
RECURSIVE Flatten(_)
Flatten(text) ==
    IF Len(text) = 1 THEN Head(text)
    ELSE Head(text) \o <<"\n">> \o Flatten(Tail(text))

\* C9: the error of a failed check is the filtered text itself when that has
\* at most 2000 characters, and its first 2000 characters followed by the
\* truncation marker otherwise; raw is the checker's whole output.
C9_TruncatedAt2000 ==
    (CheckerFailed /\ ~Envelope.success) =>
        LET filtered == Flatten(cleanedOutput)
            error == Flatten(Envelope.error)
        IN  /\ Len(filtered) <= 2000 => error = filtered
            /\ Len(filtered) > 2000 =>
                  error = SubSeq(filtered, 1, 2000)
                          \o <<"\n">> \o <<".", ".", ".", " ", "(", "S", "t", "a", "t", "u", "s", ":", " ", "T", "r", "u", "n", "c", "a", "t", "e", "d", " ", "d", "u", "e", " ", "t", "o", " ", "l", "e", "n", "g", "t", "h", ")">>
            /\ Envelope.raw = CheckerOutput

\* a failed check whose filtered text was cut, and one whose text of exactly
\* 2000 characters was not
C9_Witness ==
    /\ CheckerFailed
    /\ ~Envelope.success
    /\ TextLength(cleanedOutput) = 2001
    /\ TextLength(Envelope.error) > 2001

\* the relative imports of the requests, with the VirtualKey each must yield
RelativeTable ==
    { <<<<".", ".", "/", "d">>, <<"a", "/", "b", "/", "c", ".", "t", "s">>, <<"a", "/", "d">>>>,
      <<<<".", "/", "a">>, <<"s", "r", "c", "/", "m", "a", "i", "n", ".", "t", "s", "x">>, <<"s", "r", "c", "/", "a">>>>,
      <<<<".", "/", "s", ".", "c", "s", "s">>, <<"s", "r", "c", "/", "m", "a", "i", "n", ".", "t", "s", "x">>, <<"s", "r", "c", "/", "s", ".", "c", "s", "s">>>>,
      <<<<".", ".", "/", ".", ".", "/", "d">>, <<"s", "r", "c", "/", "m", "a", "i", "n", ".", "t", "s", "x">>, <<".", ".", "/", "d">>>>,
      <<<<".", "/", "b", "/", ".", "/", "c", ".", "t", "s">>, <<"a", "/", "d">>, <<"a", "/", "b", "/", "c", ".", "t", "s">>>>,
      <<<<".", ".", "/", "s", "r", "c", "/", "/", "a">>, <<"a", "/", "d">>, <<"s", "r", "c", "/", "a">>>>,
      <<<<".", "/">>, <<"s", "r", "c", "/", "a">>, <<"s", "r", "c", "/">>>> }

\* C10: a relative specifier resolves to the importer's directory joined with
\* the specifier and normalized: "." and ".." segments are collapsed, the
\* result has no leading separator, "../d" from "a/b/c.ts" is "a/d", and the
\* result is the same whatever the file map holds.
C10_RelativeResolution ==
    \A r \in resolved :
        (r.edge.kind # "entry-point" /\ StartsWith(r.edge.path, Dot)) =>
            LET segs == SplitSlash(r.res.path)
            IN  /\ r.res.namespace = "vfs"
                /\ <<r.edge.path, r.edge.importer, r.res.path>> \in RelativeTable
                /\ ~StartsWith(r.res.path, Slash)
                /\ \A i \in 1..Len(segs) :
                      /\ segs[i] # Dot
                      /\ segs[i] = <<>> => i = Len(segs) /\ i > 1
                      /\ segs[i] = DotDot => \A j \in 1..i : segs[j] = DotDot

\* "../d" imported from a/b/c.ts was resolved to a/d
C10_Witness ==
    \E r \in resolved :
        /\ r.edge.path = SpecUpD
        /\ r.edge.importer = KeyC
        /\ r.res = VfsResult(<<"a", "/", "d">>)

\* check.js went past the lookup of the checker and found it in neither of
\* the two places
CheckerAbsent ==
    /\ pipeline = "check"
    /\ tmpDir # Null
    /\ tscPath = Null
    /\ exc = Null
    /\ pc \notin {"start", "mkdtemp", "write", "tsconfig", "lookup"}

\* the warning envelope of the missing checker
WarningEnvelope ==
    [success |-> TRUE,
     output |-> <<<<"W", "a", "r", "n", "i", "n", "g", ":", " ", "T", "y", "p", "e", "S", "c", "r", "i", "p", "t", " ", "c", "o", "m", "p", "i", "l", "e", "r", " ", "(", "t", "s", "c", ")", " ", "n", "o", "t", " ", "f", "o", "u", "n", "d", " ", "i", "n", " ", "l", "o", "c", "a", "l", "_", "c", "o", "m", "p", "i", "l", "e", "r", ".", " ", "S", "k", "i", "p", "p", "i", "n", "g", " ", "s", "t", "r", "i", "c", "t", " ", "t", "y", "p", "e", " ", "c", "h", "e", "c", "k", ".">>>>]

InsideScope(p) == p = tmpDir \/ StartsWith(p, tmpDir \o Slash)

\* C12: every file check.js writes, and the directory it creates for it,
\* lies inside the scope directory of the request, whatever the keys of the
\* VirtualFileMap, keys with ".." segments or a leading "/" included.
C12_WritesInsideScope ==
    pipeline = "check" =>
        \A p \in written : InsideScope(p) /\ InsideScope(PathDirname(p))

====
